---- MODULE Spec2Model ----
(***************************************************************************)
(* Model of the discovery engine of dbus_explorer                           *)
(* (src/src/dbus_introspection.rs): get_service_names_only,                 *)
(* discover_services, analyze_service and introspect_object, run against a  *)
(* message bus whose replies are chosen nondeterministically and, for       *)
(* Introspect, stay fixed once given (a static object graph).               *)
(*                                                                          *)
(* Spec follows one request through its bus calls.  ConcSpec runs two       *)
(* service_page requests side by side, PageSpec the validation of           *)
(* service_page and object_page (src/src/handlers.rs, src/src/utils.rs),    *)
(* and FnSpec calls introspect_object, the last statements of              *)
(* analyze_service and find_child_objects once on arguments from bounded    *)
(* sets.                                                                    *)
(*                                                                          *)
(* A string is a sequence of one-character strings, so that concatenation,  *)
(* starts_with, contains and the byte order of Rust's String are computed   *)
(* and not assumed.  Option<T> is a sequence of length at most one.         *)
(***************************************************************************)
EXTENDS Integers, Sequences, FiniteSets, TLC

\* ------------------------------------------------------------------ bounds
\* Objects whose path has at least MaxPathLen characters advertise no child.
MaxPathLen == 3
\* Introspect calls one walk may issue before the model stops following it.
MaxCalls == 4
\* Names one ListNames reply carries.
MaxListed == 2
\* Walks of the same service one after another (service_page requested again).
MaxWalks == 2

\* ------------------------------------------------------------------ strings
None == <<>>
Some(x) == <<x>>

Range(s) == { s[i] : i \in 1..Len(s) }

\* Byte value of the characters the model uses (Rust compares Strings bytewise).
Code == [c \in {"/", ":", "A", "a", "b"} |->
           CASE c = "/" -> 47 [] c = ":" -> 58 [] c = "A" -> 65
             [] c = "a" -> 97 [] c = "b" -> 98]

\* str::starts_with(char)
starts_with(s, c) == Len(s) > 0 /\ s[1] = c

\* Mutant: only a match at the start of s counts.
contains_PrefixOnly(s, pat) ==
  Len(pat) <= Len(s) /\ \A j \in 1..Len(pat) : s[j] = pat[j]

\* str::contains(&str): pat occurs in s as a contiguous block.
contains(s, pat) ==
  \E i \in 0..(Len(s) - Len(pat)) :
     \A j \in 1..Len(pat) : s[i + j] = pat[j]

\* Ord for String: lexicographic by bytes, a proper prefix first.
RECURSIVE StrLess(_, _)
StrLess(a, b) ==
  IF b = <<>> THEN FALSE
  ELSE IF a = <<>> THEN TRUE
  ELSE IF Code[a[1]] < Code[b[1]] THEN TRUE
  ELSE IF Code[a[1]] > Code[b[1]] THEN FALSE
  ELSE StrLess(Tail(a), Tail(b))

\* slice::sort / sort_by are stable: an element goes behind every element not
\* greater than it.  Insert places index x into perm, a sequence of indices
\* already in the order of their keys.
RECURSIVE Insert(_, _, _)
Insert(keys, x, perm) ==
  IF perm = <<>> THEN <<x>>
  ELSE IF StrLess(keys[x], keys[Head(perm)]) THEN <<x>> \o perm
  ELSE <<Head(perm)>> \o Insert(keys, x, Tail(perm))

\* The order in which a stable sort leaves the first n of the keys.
RECURSIVE SortPerm(_, _)
SortPerm(keys, n) ==
  IF n = 0 THEN <<>> ELSE Insert(keys, n, SortPerm(keys, n - 1))

\* service_names.sort(): the strings are their own keys.
Sort(s) ==
  LET perm == SortPerm(s, Len(s)) IN [i \in 1..Len(s) |-> s[perm[i]]]

\* services.sort_by(|a, b| a.name.cmp(&b.name))
SortByName(s) ==
  LET perm == SortPerm([i \in 1..Len(s) |-> s[i].name], Len(s))
  IN [i \in 1..Len(s) |-> s[perm[i]]]

\* ------------------------------------------------------------------ the bus
Root == <<"/">>

\* The <node> lists of a schema, over the child names "a", "b" and the empty
\* name: none, one, a repeated name, two siblings, the empty name alone and
\* beside a sibling.
RichNodeLists ==
  { <<>>, << <<"a">> >>, << <<>> >>,
    << <<"a">>, <<"a">> >>, << <<"a">>, <<"b">> >>, << <<"b">>, <<"a">> >>,
    << <<>>, <<"a">> >>, << <<"a">>, <<>> >> }
PlainNodeLists == { <<>>, << <<"a">> >> }

\* Fault names a bus call may fail with.
FaultCodes == {"AccessDenied", "UnknownMethod", "ServiceUnknown"}

\* The D-Bus error name of a fault code.
ErrorName(code) ==
  CASE code = "AccessDenied" -> "org.freedesktop.DBus.Error.AccessDenied"
    [] code = "UnknownMethod" -> "org.freedesktop.DBus.Error.UnknownMethod"
    [] OTHER -> "org.freedesktop.DBus.Error.ServiceUnknown"

\* A fault of a bus call: the error name it carries (code) and what
\* e.to_string() renders it as (text), a sequence of words in which an error
\* name is one word.
FaultWith(code, text) ==
  [k |-> "err", code |-> code, text |-> text, wf |-> FALSE,
   interfaces |-> <<>>, nodes |-> <<>>]
Fault(code) == FaultWith(code, << ErrorName(code) >>)

\* ------------------------------------------------------------------ schemas
\* The elements of an introspection document, as the Dbus* structs hold them.
\* An attribute is an Option where the model lets it be missing.
DescriptionKey == "org.freedesktop.DBus.Description"
DbusAnnotation(name, value) == [name |-> name, value |-> value]
DbusArg(name, type_name, direction) ==
  [name |-> name, type_name |-> type_name, direction |-> direction]
DbusMethod(name, arguments, annotations) ==
  [name |-> name, arguments |-> arguments, annotations |-> annotations]
DbusProperty(name, type_name, access) ==
  [name |-> name, type_name |-> type_name, access |-> access]
DbusSignal(name, arguments, annotations) ==
  [name |-> name, arguments |-> arguments, annotations |-> annotations]
DbusInterface(name, methods, properties, signals, annotations) ==
  [name |-> name, methods |-> methods, properties |-> properties,
   signals |-> signals, annotations |-> annotations]

\* The reply of a successful Introspect call: schema text that is
\* syntactically sound (wf) or not, with the elements that can be read in it.
Schema(wf, interfaces, nodes) ==
  [k |-> "ok", code |-> "", text |-> <<>>, wf |-> wf,
   interfaces |-> interfaces, nodes |-> nodes]

\* The interface of an object without children: a method with an input and
\* an output, a property, a signal, and a description.
LeafInterface ==
  DbusInterface("com.example.Leaf",
    << DbusMethod("Get", << DbusArg(Some("key"), Some("s"), Some("in")),
                           DbusArg(Some("value"), Some("v"), Some("out")) >>,
                  <<>>) >>,
    << DbusProperty("Size", "u", Some("read")) >>,
    << DbusSignal("Changed", << DbusArg(None, Some("s"), None) >>, <<>>) >>,
    << DbusAnnotation(DescriptionKey, "a leaf") >>)

\* Schemas the walk meets: malformed text with nothing readable, malformed
\* text that breaks off after an interface and a <node>, and a well-formed
\* document with the given <node> names.
BadXml == Schema(FALSE, <<>>, <<>>)
TornXml == Schema(FALSE, << LeafInterface >>, << <<"a">> >>)
Xml(nodes) ==
  Schema(TRUE, IF nodes = <<>> THEN << LeafInterface >> ELSE <<>>, nodes)

\* Service names: a private one (":a"), and public ones that differ in case,
\* in order and in where "a" occurs.
NamePool == { <<":", "a">>, <<"a">>, <<"b", "a">>, <<"A">> }
Filters == { None, Some(<<"a">>) }

RECURSIVE SeqsUpTo(_, _)
SeqsUpTo(S, n) ==
  IF n = 0 THEN { <<>> }
  ELSE LET shorter == SeqsUpTo(S, n - 1)
       IN shorter \cup { Append(s, x) : s \in shorter, x \in S }


\* Replies of the three bus calls the engine consumes.
OwnerReplies ==
  { [k |-> "ok", owner |-> ":1.7"], [k |-> "err", owner |-> ""] }
ListReplies ==
  { [k |-> "err", names |-> <<>>] }
    \cup { [k |-> "ok", names |-> l] : l \in SeqsUpTo(NamePool, MaxListed) }

\* ------------------------------------------------------------------ state
VARIABLES
  req,       \* the inbound request being served: kind, service name, filter;
             \* or the function call being made, with its arguments
  pc,        \* where the request stands: the bus call it issues next
  graph,     \* the bus: Introspect replies given so far, by <<service, path>>
  names,     \* discover_services: the listed names
  ni,        \* discover_services: position of the for loop in names
  services,  \* discover_services: the records collected so far
  info,      \* analyze_service: service_info
  stack,     \* analyze_service: objects_to_explore
  cur,       \* analyze_service: current_object
  ci,        \* analyze_service: position of the for loop in cur.child_nodes
  calls,     \* the bus calls the request has issued, in order
  walked,    \* the paths the walk in progress has sent to Introspect, in order
  result,    \* what the request returned, once it has
  prev,      \* the record the previous walk of this service returned
  walkNo,    \* how many walks of this service were started
  conn,      \* whether the request has opened its bus connection
  parked     \* the request in flight beside this one, while it does not run

vars == <<req, pc, graph, names, ni, services, info, stack, cur, ci, calls,
          walked, result, prev, walkNo, conn, parked>>

\* ------------------------------------------------------------------ records
\* Mutant: the record of the previous walk is reused under the new name.
NewServiceInfo_Reused(service_name) == [info EXCEPT !.name = service_name]

\* ServiceInfo as analyze_service constructs it.
NewServiceInfo(service_name) ==
  [name |-> service_name, owner |-> None, objects |-> <<>>, error |-> None]

ObjectInfo(path, interfaces, error, child_nodes) ==
  [path |-> path, interfaces |-> interfaces, error |-> error,
   child_nodes |-> child_nodes]

NoObject == ObjectInfo(<<>>, <<>>, None, <<>>)

PathsOf(objects) == { o.path : o \in Range(objects) }

\* ------------------------------------------------------------------ children
\* str::starts_with(&str)
starts_with_str(s, prefix) ==
  Len(prefix) <= Len(s) /\ SubSeq(s, 1, Len(prefix)) = prefix

\* find_child_objects: what is left of an object's path behind the parent's.
remaining_path(object_path, parent_path) ==
  IF parent_path = <<"/">>
    THEN SubSeq(object_path, 2, Len(object_path))
    ELSE SubSeq(object_path, Len(parent_path) + 1, Len(object_path))

\* find_child_objects: the test an object passes to be pushed to children.
is_direct_child(object, parent_path) ==
  /\ object.error = None
  /\ object.path # parent_path
  /\ starts_with_str(object.path, parent_path)
  /\ LET remaining == remaining_path(object.path, parent_path)
     IN /\ starts_with(remaining, "/")
        /\ ~contains(SubSeq(remaining, 2, Len(remaining)), <<"/">>)

\* children.sort_by(|a, b| a.path.cmp(&b.path))
SortByPath(s) ==
  LET perm == SortPerm([i \in 1..Len(s) |-> s[i].path], Len(s))
  IN [i \in 1..Len(s) |-> s[perm[i]]]

find_child_objects(objects, parent_path) ==
  SortByPath(SelectSeq(objects, LAMBDA o : is_direct_child(o, parent_path)))

\* ------------------------------------------------------------------ parsing
\* Whether quick_xml::de::from_str::<DbusNode> accepts the text: it is sound
\* XML and every required attribute is there.
WellFormed(reply) ==
  /\ reply.wf
  /\ \A i \in 1..Len(reply.interfaces) :
       LET di == reply.interfaces[i]
       IN /\ \A p \in Range(di.properties) : p.access # None
          /\ \A m \in Range(di.methods) :
               \A a \in Range(m.arguments) : a.type_name # None
          /\ \A g \in Range(di.signals) :
               \A a \in Range(g.arguments) : a.type_name # None

\* Mutant: the loop over the annotations has no break, the last match wins.
RECURSIVE Description_LastWins(_)
Description_LastWins(annotations) ==
  IF annotations = <<>> THEN None
  ELSE LET n == Len(annotations)
       IN IF annotations[n].name = DescriptionKey
            THEN Some(annotations[n].value)
            ELSE Description_LastWins(SubSeq(annotations, 1, n - 1))

\* The loop over the annotations of an element: the value of the first one
\* named DescriptionKey, then break.
RECURSIVE Description(_)
Description(annotations) ==
  IF annotations = <<>> THEN None
  ELSE IF Head(annotations).name = DescriptionKey
    THEN Some(Head(annotations).value)
    ELSE Description(Tail(annotations))

ArgumentInfo(dbus_arg) ==
  [name |-> dbus_arg.name, type_name |-> dbus_arg.type_name[1],
   direction |-> dbus_arg.direction, description |-> None]

\* The given arguments converted, in their order.
PushArgs(arguments) ==
  [i \in 1..Len(arguments) |-> ArgumentInfo(arguments[i])]

\* Mutant: only the arguments marked "in" are inputs.
MethodInfo_InIsInput(dbus_method) ==
  [name |-> dbus_method.name,
   arguments |->
     PushArgs(SelectSeq(dbus_method.arguments,
                       LAMBDA a : a.direction = Some("in"))),
   return_values |->
     PushArgs(SelectSeq(dbus_method.arguments,
                       LAMBDA a : a.direction # Some("in"))),
   description |-> Description(dbus_method.annotations)]

\* A method: the arguments whose direction is "out" are pushed to
\* return_values, every other one to arguments.
MethodInfo(dbus_method) ==
  [name |-> dbus_method.name,
   arguments |->
     PushArgs(SelectSeq(dbus_method.arguments,
                       LAMBDA a : a.direction # Some("out"))),
   return_values |->
     PushArgs(SelectSeq(dbus_method.arguments,
                       LAMBDA a : a.direction = Some("out"))),
   description |-> Description(dbus_method.annotations)]

\* A property: name, type and access are copied.
PropertyInfo(dbus_property) ==
  [name |-> dbus_property.name, type_name |-> dbus_property.type_name,
   access |-> dbus_property.access[1], description |-> None]

SignalInfo(dbus_signal) ==
  [name |-> dbus_signal.name,
   arguments |-> PushArgs(dbus_signal.arguments),
   description |-> Description(dbus_signal.annotations)]

InterfaceInfo(dbus_interface) ==
  [name |-> dbus_interface.name,
   methods |-> [i \in 1..Len(dbus_interface.methods) |->
                  MethodInfo(dbus_interface.methods[i])],
   properties |-> [i \in 1..Len(dbus_interface.properties) |->
                     PropertyInfo(dbus_interface.properties[i])],
   signals |-> [i \in 1..Len(dbus_interface.signals) |->
                  SignalInfo(dbus_interface.signals[i])],
   description |-> Description(dbus_interface.annotations)]

\* Mutant: text that cannot be deserialized yields what could be read of it.
parse_introspection_xml_serde_Lenient(reply) ==
  [ok |-> TRUE,
   interfaces |-> [i \in 1..Len(reply.interfaces) |->
                     [name |-> reply.interfaces[i].name, methods |-> <<>>,
                      properties |-> <<>>, signals |-> <<>>,
                      description |-> None]],
   child_nodes |-> reply.nodes]

\* parse_introspection_xml_serde: text that does not deserialize is an Err;
\* otherwise the interfaces are converted and the names of the <node>
\* children copied, both in document order.
parse_introspection_xml_serde(reply) ==
  IF WellFormed(reply)
    THEN [ok |-> TRUE,
          interfaces |-> [i \in 1..Len(reply.interfaces) |->
                            InterfaceInfo(reply.interfaces[i])],
          child_nodes |-> reply.nodes]
    ELSE [ok |-> FALSE, interfaces |-> <<>>, child_nodes |-> <<>>]

\* e.to_string() of a fault.
to_string(e) == e.text

\* The error text introspect_object derives from a transport fault: the
\* rendered fault is searched for the two error names.
FaultMessage(e) ==
  IF contains(to_string(e), << ErrorName("AccessDenied") >>)
    THEN << "Access denied - not authorized to introspect this object" >>
  ELSE IF contains(to_string(e), << ErrorName("UnknownMethod") >>)
    THEN << "Object does not support introspection" >>
  ELSE << "Introspection failed: " >> \o to_string(e)

\* Mutant: a path the previous walk recorded is reported as already visited
\* instead of being decoded again (a visited set that outlives the walk).
introspect_object_Memo(object_path, reply) ==
  IF prev # None /\ object_path \in PathsOf(prev[1].objects)
    THEN Some(ObjectInfo(object_path, <<>>, Some(<<"Already visited">>), <<>>))
  ELSE IF reply.k = "ok" /\ WellFormed(reply)
    THEN Some(ObjectInfo(object_path, <<>>, None, reply.nodes))
  ELSE Some(ObjectInfo(object_path, <<>>, Some(<<"Introspection failed">>),
                       <<>>))

\* Mutant: an object whose schema text does not deserialize keeps the child
\* names that stand in the text.
introspect_object_ErrorKeepsChildren(object_path, reply) ==
  IF reply.k = "ok"
    THEN LET parsed == parse_introspection_xml_serde(reply)
         IN IF parsed.ok
              THEN Some(ObjectInfo(object_path, parsed.interfaces, None,
                                   parsed.child_nodes))
              ELSE Some(ObjectInfo(object_path, <<>>,
                                   Some(<< "XML parsing failed" >>),
                                   reply.nodes))
    ELSE Some(ObjectInfo(object_path, <<>>, Some(FaultMessage(reply)), <<>>))

\* Mutant: a fault of the Introspect call yields no object at all.
introspect_object_NoneOnFault(object_path, reply) ==
  IF reply.k = "ok"
    THEN LET parsed == parse_introspection_xml_serde(reply)
         IN IF parsed.ok
              THEN Some(ObjectInfo(object_path, parsed.interfaces, None,
                                   parsed.child_nodes))
              ELSE Some(ObjectInfo(object_path, <<>>,
                                   Some(<< "XML parsing failed" >>), <<>>))
    ELSE None

\* introspect_object, given the bus's reply: always Some(ObjectInfo).
introspect_object(object_path, reply) ==
  IF reply.k = "ok"
    THEN LET parsed == parse_introspection_xml_serde(reply)
         IN IF parsed.ok
              THEN Some(ObjectInfo(object_path, parsed.interfaces, None,
                                   parsed.child_nodes))
              ELSE Some(ObjectInfo(object_path, <<>>,
                                   Some(<< "XML parsing failed" >>), <<>>))
    ELSE Some(ObjectInfo(object_path, <<>>, Some(FaultMessage(reply)), <<>>))

\* Mutant: the root is not special-cased, "/" and "a" give "//a".
child_path_NoRootCase(path, child_node) == path \o <<"/">> \o child_node

\* The child path analyze_service formats from a parent path and a child name.
child_path(path, child_node) ==
  IF path = Root THEN <<"/">> \o child_node
  ELSE path \o <<"/">> \o child_node

\* Mutant: the push is forgotten.
RecordObject_Forgotten(si, object) == si

\* Mutant: the object is put before the ones recorded so far.
RecordObject_Prepends(si, object) ==
  [si EXCEPT !.objects = << object >> \o @]

\* service_info.objects.push(object)
RecordObject(si, object) == [si EXCEPT !.objects = Append(@, object)]

\* Mutant: a child whose introspection failed is dropped instead of pushed.
PushChild_SkipFailed(stk, child_object) ==
  IF child_object # None /\ child_object[1].error = None
    THEN Append(stk, child_object[1]) ELSE stk

\* if let Some(child_object) = introspect_object(..) { push }
PushChild(stk, child_object) ==
  IF child_object # None THEN Append(stk, child_object[1]) ELSE stk

\* Mutant: the post-condition is left out.
Finish_Skipped(si) == si

\* The post-condition at the end of analyze_service.
Finish(si) ==
  IF si.objects = <<>> /\ si.error = None
    THEN [si EXCEPT !.error =
            Some("No accessible objects found or service not authorized")]
    ELSE si

\* The filter of the for loop of discover_services: TRUE when name is walked.
Survives(name, filter) ==
  /\ ~starts_with(name, ":")
  /\ (filter # None => contains(name, filter[1]))

\* ------------------------------------------------------------------ requests
\* An inbound request: the handler it is routed to, and the service name,
\* object path and filter it carries.
Request(kind, name, path, filter) ==
  [kind |-> kind, name |-> name, path |-> path, filter |-> filter]

Requests ==
  { Request("names", <<>>, <<>>, None) }
    \cup { Request("discover", <<>>, <<>>, f) : f \in Filters }
    \cup { Request("service", <<"a">>, <<>>, None) }

\* ------------------------------------------------------------------ the bus
\* The <node> lists a schema at path may carry.  When one service is walked
\* by the only request in flight, every path shorter than MaxPathLen may
\* advertise children; when a whole bus is discovered, or two requests are in
\* flight, only the roots do.
NodeLists(path) ==
  IF req \in Requests /\ req.kind = "service" /\ parked = None
    THEN IF Len(path) < MaxPathLen THEN RichNodeLists ELSE { <<>> }
    ELSE IF path = Root THEN PlainNodeLists ELSE { <<>> }

\* The faults Introspect may answer with: two kinds when one service is
\* walked, one kind when a whole bus is discovered.
Faults ==
  IF req.kind = "service"
    THEN { Fault("AccessDenied"), Fault("ServiceUnknown") }
    ELSE { Fault("ServiceUnknown") }

\* The malformed schema texts a path may answer with: where children may be
\* advertised, text that breaks off after a <node>; at a root and where no
\* children may be advertised, text with nothing readable.
BadTexts(path) ==
  (IF NodeLists(path) = RichNodeLists THEN { TornXml } ELSE { BadXml })
    \cup (IF path = Root THEN { BadXml } ELSE {})

\* What Introspect may answer for a path: a fault, malformed schema text, or
\* a well-formed schema.
Replies(path) ==
  Faults \cup BadTexts(path) \cup { Xml(n) : n \in NodeLists(path) }

\* A bus call as the bus sees it: the method, the destination service, the
\* object path, and whether the bus answered with a fault.
Call(op, svc, path, fault) ==
  [op |-> op, svc |-> svc, path |-> path, fault |-> fault]

\* One Introspect round trip: the reply r for <<svc, path>> is the one given
\* before, if any (the object graph is static).
BusIntrospect(svc, path, r) ==
  /\ r \in Replies(path)
  /\ IF <<svc, path>> \in DOMAIN graph
       THEN r = graph[<<svc, path>>] /\ graph' = graph
       ELSE graph' = graph @@ (<<svc, path>> :> r)
  /\ calls' = Append(calls, Call("Introspect", svc, path, r.k = "err"))

\* An Introspect round trip of the walk in progress.
Introspect(svc, path, r) ==
  /\ BusIntrospect(svc, path, r)
  /\ walked' = Append(walked, path)


\* ------------------------------------------------------------------ results
Ok(v) == [ok |-> TRUE, value |-> v]
Err == [ok |-> FALSE, value |-> <<>>]
InvalidInput(message) == [ok |-> FALSE, value |-> <<"InvalidInput", message>>]
ServiceNotFound(name) == [ok |-> FALSE, value |-> <<"ServiceNotFound", name>>]

\* ------------------------------------------------------------------ validation
MaxServiceNameLen == 255
MaxObjectPathLen == 1024

\* char::is_alphanumeric over the characters the requests are written in;
\* "U+00E9" stands for one alphanumeric character of two bytes.
IsAlphanumeric(c) == c \in {"a", "b", "A", "1", "U+00E9"}
Utf8Len(c) == IF c = "U+00E9" THEN 2 ELSE 1

\* str::len: the length in bytes.
ByteLen(s) == Len(s) + Cardinality({ i \in 1..Len(s) : Utf8Len(s[i]) = 2 })

validate_service_name(service_name) ==
  IF service_name = <<>>
    THEN InvalidInput("Service name cannot be empty")
  ELSE IF ByteLen(service_name) > MaxServiceNameLen
    THEN InvalidInput("Service name too long")
  ELSE IF ~(\A i \in 1..Len(service_name) :
              \/ IsAlphanumeric(service_name[i])
              \/ service_name[i] \in {".", "_", "-"})
    THEN InvalidInput("Invalid characters in service name")
  ELSE Ok(<<>>)

validate_object_path(object_path) ==
  IF object_path = <<>>
    THEN InvalidInput("Object path cannot be empty")
  ELSE IF ~starts_with(object_path, "/")
    THEN InvalidInput("Object path must start with '/'")
  ELSE IF ByteLen(object_path) > MaxObjectPathLen
    THEN InvalidInput("Object path too long")
  ELSE IF ~(\A i \in 1..Len(object_path) :
              \/ IsAlphanumeric(object_path[i])
              \/ object_path[i] \in {"/", "_", "-"})
    THEN InvalidInput("Invalid characters in object path")
  ELSE Ok(<<>>)

Init ==
  /\ req \in Requests
  /\ pc = "start"
  /\ graph = [x \in {} |-> BadXml]
  /\ names = <<>>
  /\ ni = 1
  /\ services = <<>>
  /\ info = [name |-> <<>>, owner |-> None, objects |-> <<>>, error |-> None]
  /\ stack = <<>>
  /\ cur = NoObject
  /\ ci = 1
  /\ calls = <<>>
  /\ walked = <<>>
  /\ result = None
  /\ prev = None
  /\ walkNo = 0
  /\ conn = FALSE
  /\ parked = None

\* get_service_names_only after its ListNames call: the names that do not
\* start with ':' are pushed in order, then sorted.
PublicSorted(listed) ==
  Sort(SelectSeq(listed, LAMBDA n : ~starts_with(n, ":")))

\* get_service_names_only: ListNames, drop the private names, sort.
GetServiceNamesOnly ==
  /\ pc = "start" /\ req.kind = "names"
  /\ \E reply \in ListReplies :
       /\ calls' = Append(calls, Call("ListNames", <<>>, <<>>, reply.k = "err"))
       /\ names' = reply.names
       /\ result' = IF reply.k = "err" THEN Some(Err)
                    ELSE Some(Ok(PublicSorted(reply.names)))
  /\ pc' = "done"
  /\ conn' = TRUE
  /\ UNCHANGED <<parked, req, graph, ni, services, info, stack, cur, ci, walked,
                 prev, walkNo>>

\* Mutant: a ListNames fault is taken for an empty list of names.
ListNames_FaultAsEmpty ==
  /\ pc = "start" /\ req.kind = "discover"
  /\ \E reply \in ListReplies :
       /\ calls' = Append(calls, Call("ListNames", <<>>, <<>>, reply.k = "err"))
       /\ names' = reply.names
  /\ pc' = "names"
  /\ conn' = TRUE
  /\ UNCHANGED <<parked, req, graph, ni, services, info, stack, cur, ci, walked,
                 result, prev, walkNo>>

\* discover_services up to its for loop: a ListNames fault returns Err.
ListNames ==
  /\ pc = "start" /\ req.kind = "discover"
  /\ \E reply \in ListReplies :
       /\ calls' = Append(calls, Call("ListNames", <<>>, <<>>, reply.k = "err"))
       /\ IF reply.k = "err"
            THEN result' = Some(Err) /\ pc' = "done" /\ names' = names
            ELSE names' = reply.names /\ pc' = "names" /\ result' = result
  /\ conn' = TRUE
  /\ UNCHANGED <<parked, req, graph, ni, services, info, stack, cur, ci, walked,
                 prev, walkNo>>

\* One turn of the for loop of discover_services: skip the name, or enter
\* analyze_service for it; after the last name, sort and return.
ForName ==
  /\ pc = "names"
  /\ IF ni > Len(names)
       THEN /\ result' = Some(Ok(SortByName(services)))
            /\ pc' = "done"
            /\ UNCHANGED <<ni, info, walked>>
       ELSE IF ~Survives(names[ni], req.filter)
         THEN /\ ni' = ni + 1
              /\ UNCHANGED <<pc, result, info, walked>>
         ELSE /\ info' = NewServiceInfo(names[ni])
              /\ walked' = <<>>
              /\ pc' = "owner"
              /\ UNCHANGED <<ni, result>>
  /\ UNCHANGED <<conn, parked, req, graph, names, services, stack, cur, ci,
                 calls, prev, walkNo>>

\* The path object_page validates and introspects: '/' before the decoded
\* path parameter.
ObjectPath(r) == <<"/">> \o r.path

\* What object_page renders once analyze_service has returned si: the
\* record and the children of the requested object.
ObjectPageOf(si) ==
  Ok([service_info |-> si,
      child_objects |-> find_child_objects(si.objects, ObjectPath(req))])

\* What service_page answers once analyze_service has returned si.
ServicePageOf(si) ==
  IF si.objects = <<>> /\ si.error # None
    THEN ServiceNotFound(si.name)
    ELSE Ok(si)

\* analyze_service returns si: to the for loop of discover_services, or to
\* the page that called it.
Return(si) ==
  /\ info' = si
  /\ IF req.kind = "discover"
       THEN /\ services' = Append(services, si)
            /\ ni' = ni + 1
            /\ pc' = "names"
            /\ result' = result
       ELSE /\ result' = IF req.kind = "object" THEN Some(ObjectPageOf(si))
                         ELSE Some(ServicePageOf(si))
            /\ pc' = "done"
            /\ UNCHANGED <<services, ni>>

\* Mutant: a GetNameOwner fault ends analyze_service with an error.
GetNameOwner_FaultReturns ==
  /\ pc = "owner"
  /\ \E reply \in OwnerReplies :
       /\ calls' = Append(calls, Call("GetNameOwner", info.name, <<>>,
                                     reply.k = "err"))
       /\ IF reply.k = "ok"
            THEN /\ info' = [info EXCEPT !.owner = Some(reply.owner)]
                 /\ pc' = "root"
                 /\ UNCHANGED <<services, ni, result>>
            ELSE Return(Finish([info EXCEPT !.error =
                                  Some("Failed to look up the owner")]))
  /\ UNCHANGED <<conn, parked, req, graph, names, stack, cur, ci, walked,
                 prev, walkNo>>

\* analyze_service: the GetNameOwner call; a fault leaves the owner unset.
GetNameOwner ==
  /\ pc = "owner"
  /\ \E reply \in OwnerReplies :
       /\ calls' = Append(calls, Call("GetNameOwner", info.name, <<>>,
                                     reply.k = "err"))
       /\ info' = IF reply.k = "ok"
                    THEN [info EXCEPT !.owner = Some(reply.owner)]
                    ELSE info
  /\ pc' = "root"
  /\ UNCHANGED <<conn, parked, req, graph, names, ni, services, stack, cur,
                 ci, walked, result, prev, walkNo>>

\* analyze_service: the introspection of "/".  An errored root is recorded
\* and the function returns; a good root seeds objects_to_explore.
IntrospectRoot ==
  /\ pc = "root"
  /\ \E r \in Replies(Root) :
       /\ Introspect(info.name, Root, r)
       /\ LET root_object == introspect_object(Root, r)
          IN IF root_object # None
               THEN IF root_object[1].error = None
                      THEN /\ stack' = <<root_object[1]>>
                           /\ pc' = "pop"
                           /\ UNCHANGED <<info, services, ni, result>>
                      ELSE /\ Return(Finish(
                                RecordObject(info, root_object[1])))
                           /\ stack' = stack
               ELSE /\ Return(Finish(
                         [info EXCEPT !.error =
                            Some("Failed to attempt root introspection")]))
                    /\ stack' = stack
  /\ UNCHANGED <<conn, parked, req, names, cur, ci, prev, walkNo>>

\* analyze_service: the head of the while loop.  An empty worklist ends the
\* walk; otherwise the last object pushed becomes current_object.
Pop ==
  /\ pc = "pop"
  /\ IF stack = <<>>
       THEN /\ Return(Finish(info))
            /\ UNCHANGED <<stack, cur, ci>>
       ELSE /\ cur' = stack[Len(stack)]
            /\ stack' = SubSeq(stack, 1, Len(stack) - 1)
            /\ ci' = 1
            /\ pc' = "child"
            /\ UNCHANGED <<info, services, ni, result>>
  /\ UNCHANGED <<conn, parked, req, graph, names, calls, walked, prev, walkNo>>

\* analyze_service: one turn of the for loop over current_object.child_nodes:
\* introspect the child path and push what comes back.
IntrospectChild ==
  /\ pc = "child"
  /\ ci <= Len(cur.child_nodes)
  /\ Len(walked) < MaxCalls
  /\ LET path == child_path(cur.path, cur.child_nodes[ci])
     IN \E r \in Replies(path) :
          /\ Introspect(info.name, path, r)
          /\ LET child_object == introspect_object(path, r)
             IN stack' = PushChild(stack, child_object)
  /\ ci' = ci + 1
  /\ UNCHANGED <<conn, parked, req, pc, names, ni, services, info, cur,
                 result, prev, walkNo>>

\* analyze_service: after the for loop, current_object joins the record.
Record ==
  /\ pc = "child"
  /\ ci > Len(cur.child_nodes)
  /\ info' = RecordObject(info, cur)
  /\ cur' = NoObject
  /\ ci' = 1
  /\ pc' = "pop"
  /\ UNCHANGED <<conn, parked, req, graph, names, ni, services, stack, calls,
                 walked, result, prev, walkNo>>

\* service_page: the name is validated, then the connection is opened and
\* the name goes to analyze_service.
ServicePage ==
  /\ pc = "start" /\ req.kind = "service"
  /\ LET valid == validate_service_name(req.name)
     IN IF ~valid.ok
          THEN /\ result' = Some(valid)
               /\ pc' = "done"
               /\ UNCHANGED <<conn, info, walkNo>>
          ELSE /\ conn' = TRUE
               /\ info' = NewServiceInfo(req.name)
               /\ walkNo' = 1
               /\ pc' = "owner"
               /\ result' = result
  /\ UNCHANGED <<parked, req, graph, names, ni, services, stack, cur, ci, calls,
                 walked, prev>>

\* Mutant: the connection is opened before the parameters are validated.
ObjectPage_ConnectsFirst ==
  /\ pc = "start" /\ req.kind = "object"
  /\ conn' = TRUE
  /\ LET valid_name == validate_service_name(req.name)
         valid_path == validate_object_path(ObjectPath(req))
     IN IF ~valid_name.ok
          THEN result' = Some(valid_name) /\ pc' = "done"
        ELSE IF ~valid_path.ok
          THEN result' = Some(valid_path) /\ pc' = "done"
        ELSE result' = result /\ pc' = "object"
  /\ UNCHANGED <<parked, req, graph, names, ni, services, info, stack, cur, ci,
                 calls, walked, prev, walkNo>>

\* object_page: name and path are validated, then the connection is opened.
ObjectPage ==
  /\ pc = "start" /\ req.kind = "object"
  /\ LET valid_name == validate_service_name(req.name)
         valid_path == validate_object_path(ObjectPath(req))
     IN IF ~valid_name.ok
          THEN result' = Some(valid_name) /\ pc' = "done" /\ conn' = conn
        ELSE IF ~valid_path.ok
          THEN result' = Some(valid_path) /\ pc' = "done" /\ conn' = conn
        ELSE result' = result /\ pc' = "object" /\ conn' = TRUE
  /\ UNCHANGED <<parked, req, graph, names, ni, services, info, stack, cur, ci,
                 calls, walked, prev, walkNo>>

\* object_page: the requested object is introspected, then analyze_service
\* walks the whole service.
IntrospectObject ==
  /\ pc = "object"
  /\ \E r \in Replies(ObjectPath(req)) :
       BusIntrospect(req.name, ObjectPath(req), r)
  /\ info' = NewServiceInfo(req.name)
  /\ walkNo' = 1
  /\ pc' = "owner"
  /\ UNCHANGED <<conn, parked, req, names, ni, services, stack, cur, ci,
                 walked, result, prev>>

\* service_page requested again for the same service: analyze_service starts
\* afresh against the same bus.
Rewalk ==
  /\ pc = "done" /\ req.kind = "service" /\ result[1].ok
  /\ walkNo < MaxWalks
  /\ prev' = Some(result[1].value)
  /\ walkNo' = walkNo + 1
  /\ info' = NewServiceInfo(req.name)
  /\ stack' = <<>>
  /\ calls' = <<>>
  /\ walked' = <<>>
  /\ result' = None
  /\ pc' = "owner"
  /\ conn' = TRUE
  /\ UNCHANGED <<parked, req, graph, names, ni, services, cur, ci>>

Next ==
  \/ GetServiceNamesOnly
  \/ ListNames
  \/ ForName
  \/ GetNameOwner
  \/ IntrospectRoot
  \/ Pop
  \/ IntrospectChild
  \/ Record
  \/ ServicePage
  \/ Rewalk

Spec == Init /\ [][Next]_vars

\* ------------------------------------------------------- two requests
\* What a request in flight owns: the arguments and locals of its handler and
\* of the functions it has entered, its own connection's call log included.
Context ==
  [req |-> req, pc |-> pc, names |-> names, ni |-> ni, services |-> services,
   info |-> info, stack |-> stack, cur |-> cur, ci |-> ci, calls |-> calls,
   walked |-> walked, result |-> result, walkNo |-> walkNo, conn |-> conn]

\* Mutant: objects_to_explore is one worklist shared by the requests in
\* flight instead of a local of analyze_service.
Resume_SharedWorklist(c) ==
  /\ req' = c.req /\ pc' = c.pc /\ names' = c.names /\ ni' = c.ni
  /\ services' = c.services /\ info' = c.info /\ stack' = stack
  /\ cur' = c.cur /\ ci' = c.ci /\ calls' = c.calls /\ walked' = c.walked
  /\ result' = c.result /\ walkNo' = c.walkNo /\ conn' = c.conn

\* The request whose context is c runs on: every local is its own.
Resume(c) ==
  /\ req' = c.req /\ pc' = c.pc /\ names' = c.names /\ ni' = c.ni
  /\ services' = c.services /\ info' = c.info /\ stack' = c.stack
  /\ cur' = c.cur /\ ci' = c.ci /\ calls' = c.calls /\ walked' = c.walked
  /\ result' = c.result /\ walkNo' = c.walkNo /\ conn' = c.conn

\* The runtime lets the other request run: between any two bus calls of one
\* request the other may issue any number of its own.
Switch ==
  /\ parked # None
  /\ parked' = Some(Context)
  /\ Resume(parked[1])
  /\ UNCHANGED <<graph, prev>>

\* Two service_page requests in flight, for the same service or for two.
ConcNames == { <<"a">>, <<"b">> }
ServiceRequest(name) == Request("service", name, <<>>, None)

ConcInit ==
  /\ req = ServiceRequest(<<"a">>)
  /\ pc = "start"
  /\ graph = [x \in {} |-> BadXml]
  /\ names = <<>>
  /\ ni = 1
  /\ services = <<>>
  /\ info = [name |-> <<>>, owner |-> None, objects |-> <<>>, error |-> None]
  /\ stack = <<>>
  /\ cur = NoObject
  /\ ci = 1
  /\ calls = <<>>
  /\ walked = <<>>
  /\ result = None
  /\ prev = None
  /\ walkNo = 0
  /\ conn = FALSE
  /\ \E n \in ConcNames :
       parked = Some([Context EXCEPT !.req = ServiceRequest(n)])

ConcNext ==
  \/ ServicePage
  \/ GetNameOwner
  \/ IntrospectRoot
  \/ Pop
  \/ IntrospectChild
  \/ Record
  \/ Switch

ConcSpec == ConcInit /\ [][ConcNext]_vars

\* ------------------------------------------------------- the two pages
\* A string of n times the character c.
Repeat(c, n) == [i \in 1..n |-> c]

\* Service names a page may be asked for: empty, with a character outside
\* the permitted ones, of 256 bytes (in 256 characters and in 128), of 255
\* bytes, and with every permitted punctuation mark.
PageNames ==
  { <<>>, <<"a", " ">>, <<":", "1">>,
    Repeat("a", MaxServiceNameLen + 1),
    Repeat("U+00E9", (MaxServiceNameLen + 1) \div 2),
    Repeat("a", MaxServiceNameLen),
    <<"a", ".", "b", "_", "1", "-", "A">> }

\* Path parameters of object_page: none (the root), a child, one with a
\* character outside the permitted ones, and ones that make a path of 1025
\* and of 1024 bytes.
PagePaths ==
  { <<>>, <<"a">>, <<"a", ".", "b">>,
    Repeat("a", MaxObjectPathLen),
    Repeat("a", MaxObjectPathLen - 1) }

PageRequests ==
  { Request("service", n, <<>>, None) : n \in PageNames }
    \cup { Request("object", <<"b">>, q, None) : q \in PagePaths }
    \cup { Request("object", n, <<"a">>, None) : n \in PageNames }

PageInit ==
  /\ req \in PageRequests
  /\ pc = "start"
  /\ graph = [x \in {} |-> BadXml]
  /\ names = <<>>
  /\ ni = 1
  /\ services = <<>>
  /\ info = [name |-> <<>>, owner |-> None, objects |-> <<>>, error |-> None]
  /\ stack = <<>>
  /\ cur = NoObject
  /\ ci = 1
  /\ calls = <<>>
  /\ walked = <<>>
  /\ result = None
  /\ prev = None
  /\ walkNo = 0
  /\ conn = FALSE
  /\ parked = None

PageNext ==
  \/ ServicePage
  \/ ObjectPage
  \/ IntrospectObject
  \/ GetNameOwner
  \/ IntrospectRoot
  \/ Pop
  \/ IntrospectChild
  \/ Record

PageSpec == PageInit /\ [][PageNext]_vars

\* ------------------------------------------------------- single calls
\* introspect_object and the end of analyze_service, each called once on
\* arguments drawn from bounded sets.
MaxArgs == 3
MaxAnnotations == 2
MaxMembers == 2

\* Faults: every code, with a message that is empty, plain, or mentions an
\* error name, rendered without or with the name of the code before it.
FaultMessages ==
  { <<>>, << "rejected" >>, << "see", ErrorName("AccessDenied") >>,
    << ErrorName("UnknownMethod"), "again" >> }
FaultSamples ==
  { FaultWith(c, m) : c \in FaultCodes, m \in FaultMessages }
    \cup { FaultWith(c, << ErrorName(c) >> \o m) :
             c \in FaultCodes, m \in FaultMessages }

\* Names that tell the members of a list apart by position.
MemberName(i) ==
  CASE i = 1 -> "x" [] i = 2 -> "y" [] i = 3 -> "z" [] OTHER -> "w"

\* Argument lists: up to MaxArgs arguments, each with no direction, "in",
\* "out", or a value that is neither.
Directions == { None, Some("in"), Some("out"), Some("OUT") }
ArgLists ==
  UNION { { [i \in 1..n |-> DbusArg(Some(MemberName(i)), Some("s"), d[i])] :
              d \in [1..n -> Directions] } : n \in 0..MaxArgs }

\* Annotation lists: up to MaxAnnotations of two descriptions and another key.
Annotations ==
  { DbusAnnotation(DescriptionKey, "one"),
    DbusAnnotation(DescriptionKey, "two"),
    DbusAnnotation("org.freedesktop.DBus.Deprecated", "true") }
AnnotationLists == SeqsUpTo(Annotations, MaxAnnotations)

\* Values of the access attribute of a property, and the missing attribute.
AccessValues ==
  { Some("read"), Some("write"), Some("readwrite"), Some("readonly"),
    Some(""), None }

Methods(n, arguments, annotations) ==
  [i \in 1..n |-> DbusMethod(MemberName(i), arguments, annotations)]
Properties(n, access) ==
  [i \in 1..n |-> DbusProperty(MemberName(i), "s", access)]
Signals(n, arguments, annotations) ==
  [i \in 1..n |-> DbusSignal(MemberName(i), arguments, annotations)]

\* Schemas: one interface whose method and signal carry each argument list;
\* whose interface, method or signal carries each annotation list; with each
\* number of methods, properties and signals; with each access value; text
\* that is unsound; and an argument without its type.
SchemaSamples ==
  { Schema(TRUE, << DbusInterface("i", Methods(1, a, <<>>), <<>>,
                                  Signals(1, a, <<>>), <<>>) >>, <<>>) :
      a \in ArgLists }
  \cup
  { Schema(TRUE, << DbusInterface("i", Methods(1, <<>>, l[2]), <<>>,
                                  Signals(1, <<>>, l[3]), l[1]) >>, <<>>) :
      l \in { q \in AnnotationLists \X AnnotationLists \X AnnotationLists :
                Cardinality({ i \in 1..3 : q[i] # <<>> }) <= 1 } }
  \cup
  { Schema(TRUE, << DbusInterface("i", Methods(n, <<>>, <<>>),
                                  Properties(m, Some("read")),
                                  Signals(k, <<>>, <<>>), <<>>) >>,
           << <<"a">> >>) :
      n \in 0..MaxMembers, m \in 0..MaxMembers, k \in 0..MaxMembers }
  \cup
  { Schema(TRUE, << DbusInterface("i", <<>>, Properties(1, v), <<>>,
                                  <<>>) >>, <<>>) : v \in AccessValues }
  \cup
  { BadXml, TornXml, Xml(<<>>), Xml(<< <<"a">>, <<"b">> >>),
    Schema(TRUE, << DbusInterface("i",
                      Methods(1, << DbusArg(None, None, None) >>, <<>>),
                      <<>>, <<>>, <<>>) >>, <<>>) }

\* Records analyze_service may hold when it reaches its last statements,
\* and the one its post-condition is written for.
EndObjects ==
  { <<>>,
    << ObjectInfo(Root, <<>>, Some(<< "XML parsing failed" >>), <<>>) >>,
    << ObjectInfo(Root, <<>>, None, << <<"a">> >>),
       ObjectInfo(<<"/", "a">>, <<>>, None, <<>>) >> }
EndRecords ==
  { [name |-> <<"a">>, owner |-> o, objects |-> objs, error |-> e] :
      o \in { None, Some(":1.7") }, objs \in EndObjects,
      e \in { None, Some("Failed to attempt root introspection") } }

\* Objects a record may list: the root, children, a grandchild, a
\* great-grandchild and a path that only begins like "/a", each with and
\* without an error.
MaxObjects == 2
ListedPaths ==
  { <<"/">>, <<"/", "a">>, <<"/", "b">>, <<"/", "a", "b">>,
    <<"/", "a", "/", "b">>, <<"/", "a", "/", "a">>,
    <<"/", "a", "/", "b", "/", "a">> }
ListedObjects ==
  { ObjectInfo(q, <<>>, e, <<>>) :
      q \in ListedPaths, e \in { None, Some(<< "XML parsing failed" >>) } }
ParentPaths == { <<"/">>, <<"/", "a">>, <<"/", "a", "/", "b">> }

FnCalls ==
  { [kind |-> "introspect_object", path |-> q, reply |-> r, si |-> <<>>,
     objects |-> <<>>] :
      q \in { Root, <<"/", "a">> }, r \in FaultSamples \cup SchemaSamples }
  \cup { [kind |-> "finish", path |-> <<>>, reply |-> BadXml, si |-> si,
          objects |-> <<>>] : si \in EndRecords }
  \cup { [kind |-> "find_child_objects", path |-> q, reply |-> BadXml,
          si |-> <<>>, objects |-> objs] :
           q \in ParentPaths, objs \in SeqsUpTo(ListedObjects, MaxObjects) }

FnInit ==
  /\ req \in FnCalls
  /\ pc = "start"
  /\ graph = [x \in {} |-> BadXml]
  /\ names = <<>>
  /\ ni = 1
  /\ services = <<>>
  /\ info = [name |-> <<>>, owner |-> None, objects |-> <<>>, error |-> None]
  /\ stack = <<>>
  /\ cur = NoObject
  /\ ci = 1
  /\ calls = <<>>
  /\ walked = <<>>
  /\ result = None
  /\ prev = None
  /\ walkNo = 0
  /\ conn = FALSE
  /\ parked = None

\* introspect_object returns for the reply the bus gave.
CallIntrospectObject ==
  /\ pc = "start" /\ req.kind = "introspect_object"
  /\ result' = introspect_object(req.path, req.reply)
  /\ pc' = "done"
  /\ UNCHANGED <<conn, parked, req, graph, names, ni, services, info, stack,
                 cur, ci, calls, walked, prev, walkNo>>

\* analyze_service runs its last statements on service_info.
CallFinish ==
  /\ pc = "start" /\ req.kind = "finish"
  /\ result' = Some(Finish(req.si))
  /\ pc' = "done"
  /\ UNCHANGED <<conn, parked, req, graph, names, ni, services, info, stack,
                 cur, ci, calls, walked, prev, walkNo>>

\* find_child_objects returns for the objects and the parent path given.
CallFindChildObjects ==
  /\ pc = "start" /\ req.kind = "find_child_objects"
  /\ result' = Some(find_child_objects(req.objects, req.path))
  /\ pc' = "done"
  /\ UNCHANGED <<conn, parked, req, graph, names, ni, services, info, stack,
                 cur, ci, calls, walked, prev, walkNo>>

FnNext ==
  \/ CallIntrospectObject
  \/ CallFinish
  \/ CallFindChildObjects

FnSpec == FnInit /\ [][FnNext]_vars


\* ------------------------------------------------------------------ claims

\* The records analyze_service has returned so far in this request.
Returned ==
  Range(services)
    \cup (IF req.kind = "service" /\ result # None /\ result[1].ok
            THEN { result[1].value } ELSE {})

\* The paths the request has sent to Introspect for service svc.
IntrospectedOf(svc) ==
  { c.path : c \in { d \in Range(calls) : d.op = "Introspect" /\ d.svc = svc } }

\* The bus answered Introspect for <<svc, path>> with a fault or with
\* malformed schema text.
Failed(svc, path) ==
  /\ <<svc, path>> \in DOMAIN graph
  /\ (graph[<<svc, path>>].k = "err" \/ ~graph[<<svc, path>>].wf)

\* The walk in progress has had its root reply.
PastRoot == pc \notin {"start", "owner", "root"}

\* C1: in one walk the paths of the recorded objects are pairwise distinct
\* and no path is sent to Introspect more than once.
C1_PathsUniqueVisitedOnce ==
  /\ \A i, j \in 1..Len(info.objects) :
       i # j => info.objects[i].path # info.objects[j].path
  /\ \A i, j \in 1..Len(walked) : i # j => walked[i] # walked[j]

\* C2: the walk terminates whatever the service declares.  The while loop
\* reads only the worklist and the bus, and the bus is static, so a walk that
\* terminates never ends a turn of the loop with the worklist that turn began
\* with: such a turn repeats for ever.  At the end of a turn (the for loop
\* over the children is through) the worklist the turn began with is the
\* present one without the children pushed, with current_object on top.
C2_WalkTerminates ==
  (pc = "child" /\ ci > Len(cur.child_nodes)
     /\ Len(stack) >= Len(cur.child_nodes))
    => stack #
         Append(SubSeq(stack, 1, Len(stack) - Len(cur.child_nodes)), cur)

\* C3: when the introspection of "/" fails (transport fault or malformed
\* schema), the walk returns at once with exactly the errored root record and
\* no other path of that service is sent to Introspect.
C3_RootFailureStopsWalk ==
  /\ (PastRoot /\ Failed(info.name, Root)) =>
       /\ pc \in {"done", "names"}
       /\ walked = <<Root>>
       /\ Len(info.objects) = 1
       /\ info.objects[1].path = Root
       /\ info.objects[1].error # None
       /\ info.error = None
  /\ \A r \in Returned :
       Failed(r.name, Root) =>
         /\ Len(r.objects) = 1
         /\ r.objects[1].path = Root
         /\ r.objects[1].error # None
         /\ IntrospectedOf(r.name) = { Root }

C3_Witness ==
  /\ pc = "done" /\ req.kind = "service"
  /\ graph[<<req.name, Root>>] = BadXml
  /\ result[1].value.objects =
       << ObjectInfo(Root, <<>>, Some(<< "XML parsing failed" >>), <<>>) >>


\* join(P, c) as the specification defines it.
Join(P, c) == IF P = <<"/">> THEN <<"/">> \o c ELSE P \o <<"/">> \o c

\* C4: a failed introspection of a non-root path does not abort the walk:
\* analyze_service still returns, every path whose introspection failed is in
\* the record with its error, and every child advertised by an error-free
\* object of the record was introspected and is in the record.
C4_FailedChildDoesNotAbort ==
  /\ (req.kind = "service" /\ pc = "done") => result[1].ok
  /\ \A r \in Returned :
       /\ \A p \in IntrospectedOf(r.name) :
            Failed(r.name, p) =>
              \E o \in Range(r.objects) : o.path = p /\ o.error # None
       /\ \A o \in Range(r.objects) :
            o.error = None =>
              \A i \in 1..Len(o.child_nodes) :
                /\ Join(o.path, o.child_nodes[i]) \in IntrospectedOf(r.name)
                /\ Join(o.path, o.child_nodes[i]) \in PathsOf(r.objects)

\* "/a" failed, its sibling "/b" was expanded and "/b/a" is in the record.
C4_Witness ==
  /\ pc = "done" /\ req.kind = "service"
  /\ Failed(req.name, <<"/", "a">>)
  /\ \E o \in Range(result[1].value.objects) :
       o.path = <<"/", "a">> /\ o.error # None
  /\ <<"/", "b", "/", "a">> \in PathsOf(result[1].value.objects)

\* The child names the schema at <<svc, P>> advertises, as the bus gave it.
Advertised(svc, P) ==
  IF <<svc, P>> \in DOMAIN graph /\ ~Failed(svc, P)
    THEN Range(graph[<<svc, P>>].nodes) ELSE {}

\* The least set of paths that contains S and every join of a member with a
\* child name it advertises.
RECURSIVE LeastSet(_, _)
LeastSet(svc, S) ==
  LET T == S \cup UNION { { Join(P, c) : c \in Advertised(svc, P) } : P \in S }
  IN IF T = S THEN S ELSE LeastSet(svc, T)

\* C5: when the root introspection succeeds, the paths of the returned record
\* are exactly the least set containing "/" and closed under the children
\* error-free objects advertise; no path outside it is introspected or
\* recorded at any time.
C5_ExactlyTheAdvertisedPaths ==
  /\ \A r \in Returned :
       (r.objects # <<>> /\ ~Failed(r.name, Root)) =>
         PathsOf(r.objects) = LeastSet(r.name, { Root })
  /\ \A c \in Range(calls) :
       c.op = "Introspect" => c.path \in LeastSet(c.svc, { Root })
  /\ PathsOf(info.objects) \subseteq LeastSet(info.name, { Root })

C5_Witness ==
  /\ pc = "done" /\ req.kind = "service"
  /\ ~Failed(req.name, Root)
  /\ PathsOf(result[1].value.objects) =
       { Root, <<"/", "a">>, <<"/", "b">>, <<"/", "a", "/", "a">> }


\* The names discover_services is to walk, as the specification states it:
\* not starting with ':' and, under a filter, holding it as a substring.
Public(n) == n = <<>> \/ n[1] # ":"
Surviving(n, f) ==
  /\ Public(n)
  /\ f # None =>
       \E i \in 1..(Len(n) + 1) :
         /\ i + Len(f[1]) - 1 <= Len(n)
         /\ SubSeq(n, i, i + Len(f[1]) - 1) = f[1]

\* a <= b in the byte order of strings.
Ascending(a, b) ==
  \E k \in 0..Len(a) :
    /\ k <= Len(b)
    /\ \A j \in 1..k : a[j] = b[j]
    /\ (k = Len(a) \/ (k < Len(b) /\ Code[a[k + 1]] < Code[b[k + 1]]))

\* C6: a fault of the ListNames call of discover_services is fatal: the call
\* returns a failure at once, no record is produced and no other bus call is
\* issued; and no other fault makes discover_services fail.
C6_ListNamesFaultIsFatal ==
  (req.kind = "discover" /\ calls # <<>>) =>
    /\ calls[1].op = "ListNames"
    /\ calls[1].fault =>
         /\ pc = "done"
         /\ result = Some(Err)
         /\ services = <<>>
         /\ Len(calls) = 1
    /\ (result # None /\ ~result[1].ok) => calls[1].fault
    /\ (~calls[1].fault /\ pc = "done") => result[1].ok

C6_Witness ==
  /\ req.kind = "discover" /\ pc = "done"
  /\ calls = << Call("ListNames", <<>>, <<>>, TRUE) >>
  /\ result = Some(Err)

\* C7: discover_services walks exactly the listed names that survive the
\* sigil and the filter, issues no bus call for any other name, and returns
\* the records in ascending order of name.
C7_FilteredWalkedSorted ==
  req.kind = "discover" =>
    /\ \A c \in Range(calls) :
         c.op # "ListNames" =>
           c.svc \in Range(names) /\ Surviving(c.svc, req.filter)
    /\ [i \in 1..Len(services) |-> services[i].name] =
         SelectSeq(SubSeq(names, 1, ni - 1),
                   LAMBDA n : Surviving(n, req.filter))
    /\ (pc = "done" /\ result[1].ok) =>
         LET out == result[1].value
         IN /\ ni = Len(names) + 1
            /\ Len(out) = Len(services)
            /\ \A n \in Range(names) :
                 Surviving(n, req.filter) =>
                   /\ \E r \in Range(out) : r.name = n
                   /\ Root \in IntrospectedOf(n)
            /\ \A r \in Range(out) :
                 r.name \in Range(names) /\ Surviving(r.name, req.filter)
            /\ \A i \in 1..(Len(out) - 1) :
                 Ascending(out[i].name, out[i + 1].name)

\* Filter "a": "ba" holds it inside, and is listed before "a".
C7_Witness ==
  /\ req.kind = "discover" /\ pc = "done"
  /\ req.filter = Some(<<"a">>)
  /\ names = << <<"b", "a">>, <<"a">> >>
  /\ [i \in 1..Len(result[1].value) |-> result[1].value[i].name] =
       << <<"a">>, <<"b", "a">> >>


\* The record of service svc as a walk of that service alone yields it from
\* the bus's replies for svc: the root, then the worklist taken last-in
\* first-out, each object followed onto the worklist by its children.
RefObject(svc, path) ==
  IF <<svc, path>> \in DOMAIN graph
    THEN introspect_object(path, graph[<<svc, path>>])[1]
    ELSE NoObject

RECURSIVE RefWalk(_, _, _)
RefWalk(svc, work, done) ==
  IF work = <<>> THEN done
  ELSE LET o == work[Len(work)]
           kids == [i \in 1..Len(o.child_nodes) |->
                      RefObject(svc, Join(o.path, o.child_nodes[i]))]
       IN RefWalk(svc, SubSeq(work, 1, Len(work) - 1) \o kids,
                  Append(done, o))

RefObjects(svc) ==
  IF RefObject(svc, Root).error = None
    THEN RefWalk(svc, << RefObject(svc, Root) >>, <<>>)
    ELSE << RefObject(svc, Root) >>

\* Some bus call made for service svc was answered with a fault or with
\* malformed schema text.
FaultyWalk(svc) ==
  \/ \E c \in Range(calls) : c.svc = svc /\ c.fault
  \/ \E p \in IntrospectedOf(svc) : Failed(svc, p)

\* C8: faults met while walking one service stay in that service's record:
\* once the names are listed discover_services succeeds with one record per
\* surviving name, and every record is the one a walk of its service alone
\* yields, whatever happened to the services walked before it.
C8_FaultsConfinedToOneService ==
  (req.kind = "discover" /\ calls # <<>> /\ ~calls[1].fault) =>
    /\ \A r \in Range(services) :
         /\ r.objects = RefObjects(r.name)
         /\ r.error = None
    /\ pc = "done" =>
         /\ result[1].ok
         /\ Len(result[1].value) =
              Cardinality({ i \in 1..Len(names) :
                              Surviving(names[i], req.filter) })
         /\ \A r \in Range(result[1].value) :
              r.objects = RefObjects(r.name)

\* "ba" is walked first and meets faults on every call; "a", walked after
\* it, has an error-free record of two objects.
C8_Witness ==
  /\ req.kind = "discover" /\ pc = "done"
  /\ names = << <<"b", "a">>, <<"a">> >>
  /\ \A c \in Range(calls) : c.svc = <<"b", "a">> => c.fault
  /\ FaultyWalk(<<"b", "a">>)
  /\ ~FaultyWalk(<<"a">>)
  /\ Len(result[1].value) = 2
  /\ Len(result[1].value[1].objects) = 2
  /\ result[1].value[1].name = <<"a">>

\* C9: get_service_names_only returns the public listed names sorted and
\* free of duplicates, whatever sequence the bus lists; a ListNames fault
\* gives a failure and no names.
C9_NamesSortedDeduplicated ==
  (req.kind = "names" /\ pc = "done") =>
    IF calls[1].fault THEN result = Some(Err)
    ELSE LET out == result[1].value
         IN /\ result[1].ok
            /\ Range(out) = { n \in Range(names) : Public(n) }
            /\ \A i \in 1..(Len(out) - 1) :
                 Ascending(out[i], out[i + 1]) /\ out[i] # out[i + 1]

\* The paths of a record, each with whether its object carries an error.
StatusOf(objects) == { <<o.path, o.error # None>> : o \in Range(objects) }

\* C10: a second walk of an unchanged object graph discovers the same paths
\* with the same error status as the first.
C10_RewalkSameResult ==
  (req.kind = "service" /\ pc = "done" /\ prev # None) =>
    StatusOf(result[1].value.objects) = StatusOf(prev[1].objects)

C10_Witness ==
  /\ req.kind = "service" /\ pc = "done" /\ walkNo = 2
  /\ prev # None
  /\ StatusOf(result[1].value.objects) =
       { <<Root, FALSE>>, <<<<"/", "a">>, TRUE>>, <<<<"/", "b">>, FALSE>> }


\* The contexts of the requests in flight, the running one and the other.
InFlight == { Context } \cup Range(parked)

\* The owner lookup of the request with context c was answered without fault.
OwnerFound(c) ==
  \E i \in 1..Len(c.calls) :
    c.calls[i].op = "GetNameOwner" /\ ~c.calls[i].fault

\* C11: two service requests in flight at once, each on its own connection
\* to the same static bus, share no discovery state: however their bus calls
\* interleave, each returns the record a walk of its service alone yields.
C11_ConcurrentRequestsIsolated ==
  parked # None =>
    \A c \in InFlight :
      c.pc = "done" =>
        /\ c.result # None /\ c.result[1].ok
        /\ LET r == c.result[1].value
           IN /\ r.name = c.req.name
              /\ r.objects = RefObjects(r.name)
              /\ r.error = None
              /\ (r.owner # None) <=> OwnerFound(c)

\* The request for "a" stands inside its for loop, its root introspected,
\* while the request for "b" started after it and has returned two objects.
C11_Witness ==
  /\ parked # None
  /\ parked[1].req.name = <<"a">> /\ parked[1].pc = "child"
  /\ parked[1].walked = << Root >>
  /\ req.name = <<"b">> /\ pc = "done"
  /\ Len(result[1].value.objects) = 2
  /\ Len(graph[<< <<"a">>, Root >>].nodes) = 1


\* A service name or an object path that the rules of the two pages refuse.
BadName(n) ==
  \/ Len(n) = 0
  \/ ByteLen(n) > 255
  \/ \E i \in 1..Len(n) : ~IsAlphanumeric(n[i]) /\ n[i] \notin {".", "_", "-"}
BadPath(q) ==
  \/ Len(q) = 0
  \/ q[1] # "/"
  \/ ByteLen(q) > 1024
  \/ \E i \in 1..Len(q) : ~IsAlphanumeric(q[i]) /\ q[i] \notin {"/", "_", "-"}

Refused ==
  \/ req.kind \in {"service", "object"} /\ BadName(req.name)
  \/ req.kind = "object" /\ BadPath(<<"/">> \o req.path)

\* C12: a service_page or object_page request whose service name or object
\* path fails validation ends with InvalidInput, with no bus connection
\* opened and no bus call made.
C12_InvalidInputBeforeAnyBusCall ==
  (Refused /\ pc # "start") =>
    /\ pc = "done"
    /\ result # None /\ ~result[1].ok
    /\ result[1].value[1] = "InvalidInput"
    /\ ~conn
    /\ calls = <<>>
    /\ DOMAIN graph = {}

\* object_page asked for a path of 1025 bytes under a good service name.
C12_Witness ==
  /\ req.kind = "object" /\ pc = "done"
  /\ ~BadName(req.name)
  /\ ByteLen(<<"/">> \o req.path) = 1025
  /\ result[1].value = <<"InvalidInput", "Object path too long">>


\* C13: the last statements of analyze_service never let a record leave with
\* no objects and no top-level error: such a record gets the generic error
\* "No accessible objects found or service not authorized", and nothing else
\* of the record is touched.
C13_EmptyRecordCarriesError ==
  (req.kind = "finish" /\ pc = "done") =>
    LET before == req.si
        after == result[1]
    IN /\ ~(after.objects = <<>> /\ after.error = None)
       /\ (before.objects = <<>> /\ before.error = None) =>
            after.error =
              Some("No accessible objects found or service not authorized")
       /\ (before.objects # <<>> \/ before.error # None) =>
            after.error = before.error
       /\ after.objects = before.objects
       /\ after.name = before.name /\ after.owner = before.owner

\* A record with no objects and no error reached the last statements.
C13_Witness ==
  /\ req.kind = "finish" /\ pc = "done"
  /\ req.si.objects = <<>> /\ req.si.error = None
  /\ result[1].objects = <<>>
  /\ result[1].error =
       Some("No accessible objects found or service not authorized")


\* The error text of each class of fault.
ClassText(code, text) ==
  CASE code = "AccessDenied" ->
         << "Access denied - not authorized to introspect this object" >>
    [] code = "UnknownMethod" ->
         << "Object does not support introspection" >>
    [] OTHER -> << "Introspection failed: " >> \o text

\* C14: introspect_object answers every transport fault with an ObjectInfo
\* for the requested path whose error is of the class of the code the fault
\* carries: AccessDenied, else Unsupported for UnknownMethod, else Generic
\* with the fault's own text.
C14_FaultClassifiedByCode ==
  (req.kind = "introspect_object" /\ pc = "done" /\ req.reply.k = "err") =>
    /\ result # None
    /\ result[1].path = req.path
    /\ result[1].interfaces = <<>> /\ result[1].child_nodes = <<>>
    /\ result[1].error = Some(ClassText(req.reply.code, req.reply.text))


\* The bus answered Introspect for <<svc, path>> with schema text that is
\* not sound.
Malformed(svc, path) ==
  /\ <<svc, path>> \in DOMAIN graph
  /\ graph[<<svc, path>>].k = "ok" /\ ~graph[<<svc, path>>].wf

\* The objects the walk in progress holds: recorded, on the worklist, or
\* current.
Held ==
  Range(info.objects) \cup Range(stack)
    \cup (IF pc = "child" THEN { cur } ELSE {})

\* C15: an object whose schema text is malformed is held with the parse
\* error and with no interface and no child name, whatever could be read in
\* the text; the walk goes on: nothing below the object is introspected, and
\* the returned record has the object and every other introspected path.
C15_MalformedSchemaIsRecordedBare ==
  (req.kind = "service" /\ PastRoot) =>
    /\ \A o \in Held :
         Malformed(info.name, o.path) =>
           /\ o.error = Some(<< "XML parsing failed" >>)
           /\ o.interfaces = <<>>
           /\ o.child_nodes = <<>>
    /\ \A p \in IntrospectedOf(info.name) :
         Malformed(info.name, p) =>
           \A c \in Range(graph[<<info.name, p>>].nodes) :
             Join(p, c) \in IntrospectedOf(info.name) =>
               \E q \in IntrospectedOf(info.name) :
                 /\ ~Failed(info.name, q)
                 /\ \E d \in Range(graph[<<info.name, q>>].nodes) :
                      Join(q, d) = Join(p, c)
    /\ pc = "done" =>
         PathsOf(result[1].value.objects) = IntrospectedOf(info.name)

\* "/a" answered with text that breaks off after a <node>; "/b", introspected
\* after it, is recorded with its interface, and nothing else was asked for.
C15_Witness ==
  /\ req.kind = "service" /\ pc = "done"
  /\ graph[<<req.name, Root>>] = Xml(<< <<"a">>, <<"b">> >>)
  /\ graph[<<req.name, <<"/", "a">> >>] = TornXml
  /\ graph[<<req.name, <<"/", "b">> >>] = Xml(<<>>)
  /\ Len(result[1].value.objects) = 3
  /\ \E o \in Range(result[1].value.objects) :
       o.path = <<"/", "b">> /\ o.error = None /\ Len(o.interfaces) = 1
  /\ \E o \in Range(result[1].value.objects) :
       o.path = <<"/", "a">> /\ o.error = Some(<< "XML parsing failed" >>)


\* introspect_object was called on a schema that deserializes, and returned.
Decoded ==
  /\ req.kind = "introspect_object" /\ pc = "done"
  /\ req.reply.k = "ok" /\ WellFormed(req.reply)
  /\ result # None /\ result[1].error = None
  /\ Len(result[1].interfaces) = Len(req.reply.interfaces)

\* Entry e of a converted list is the argument at position p of the source.
IsArg(e, source, p) ==
  /\ e.name = source[p].name
  /\ e.type_name = source[p].type_name[1]
  /\ e.direction = source[p].direction

\* The entries of group are the arguments of source at the positions in
\* where, each once, in the order of the positions.
InOrderAt(group, source, where) ==
  /\ Len(group) = Cardinality(where)
  /\ \A k \in 1..Len(group) :
       \E p \in where :
         /\ IsArg(group[k], source, p)
         /\ Cardinality({ q \in where : q < p }) = k - 1

\* C16: the arguments of a method are split without loss or duplication:
\* those whose direction is the literal "out" are its return values, every
\* other one (marked "in", unmarked, or marked otherwise) is an input, and
\* each group keeps the order of the document.
C16_ArgsPartitionedByDirection ==
  Decoded =>
    \A i \in 1..Len(req.reply.interfaces) :
      LET declared == req.reply.interfaces[i].methods
          methods == result[1].interfaces[i].methods
      IN /\ Len(methods) = Len(declared)
         /\ \A j \in 1..Len(declared) :
              LET source == declared[j].arguments
                  outs == { p \in 1..Len(source) :
                              source[p].direction = << "out" >> }
              IN /\ InOrderAt(methods[j].return_values, source, outs)
                 /\ InOrderAt(methods[j].arguments, source,
                              (1..Len(source)) \ outs)

\* Three arguments marked "OUT", "out" and not at all: the second is the
\* return value, the first and third are the inputs.
C16_Witness ==
  /\ Decoded
  /\ Len(req.reply.interfaces) = 1
  /\ Len(req.reply.interfaces[1].methods) = 1
  /\ [p \in 1..Len(req.reply.interfaces[1].methods[1].arguments) |->
        req.reply.interfaces[1].methods[1].arguments[p].direction] =
       << << "OUT" >>, << "out" >>, <<>> >>
  /\ [k \in 1..Len(result[1].interfaces[1].methods[1].arguments) |->
        result[1].interfaces[1].methods[1].arguments[k].name] =
       << << "x" >>, << "z" >> >>
  /\ [k \in 1..Len(result[1].interfaces[1].methods[1].return_values) |->
        result[1].interfaces[1].methods[1].return_values[k].name] =
       << << "y" >> >>


\* The value of the annotation that stands first in document order among
\* those named "org.freedesktop.DBus.Description", if there is one.
FirstDescription(annotations) ==
  LET hits == { p \in 1..Len(annotations) :
                  annotations[p].name = "org.freedesktop.DBus.Description" }
  IN IF hits = {} THEN <<>>
     ELSE << annotations[CHOOSE p \in hits : \A q \in hits : p <= q].value >>

\* The converted members stand for the declared ones, one each, in order,
\* each described by its first description annotation.
Described(members, declared) ==
  /\ Len(members) = Len(declared)
  /\ \A j \in 1..Len(declared) :
       /\ members[j].name = declared[j].name
       /\ members[j].description = FirstDescription(declared[j].annotations)

\* C17: an interface, a method and a signal are described by the value of
\* their first annotation named "org.freedesktop.DBus.Description", later
\* ones and other keys being ignored, and by nothing if there is none; an
\* interface with N methods, M properties and K signals yields N, M and K
\* entries.
C17_DescriptionIsFirstAnnotation ==
  Decoded =>
    \A i \in 1..Len(req.reply.interfaces) :
      LET declared == req.reply.interfaces[i]
          interface == result[1].interfaces[i]
      IN /\ interface.name = declared.name
         /\ interface.description = FirstDescription(declared.annotations)
         /\ Described(interface.methods, declared.methods)
         /\ Described(interface.signals, declared.signals)
         /\ Len(interface.properties) = Len(declared.properties)
         /\ \A j \in 1..Len(declared.properties) :
              /\ interface.properties[j].name = declared.properties[j].name
              /\ interface.properties[j].description = <<>>

\* A method annotated with description "two" and then description "one" is
\* described by "two".
C17_Witness ==
  /\ Decoded
  /\ Len(req.reply.interfaces) = 1
  /\ Len(req.reply.interfaces[1].methods) = 1
  /\ req.reply.interfaces[1].methods[1].annotations =
       << DbusAnnotation("org.freedesktop.DBus.Description", "two"),
          DbusAnnotation("org.freedesktop.DBus.Description", "one") >>
  /\ result[1].interfaces[1].methods[1].description = << "two" >>
  /\ result[1].interfaces[1].description = <<>>


\* The GetNameOwner calls the request has made so far.
OwnerCalls == SelectSeq(calls, LAMBDA c : c.op = "GetNameOwner")

\* C18: a fault of GetNameOwner leaves the owner of the record absent and
\* goes no further: the root is introspected next and the walk yields the
\* objects it yields when the lookup succeeds; the owner is present exactly
\* when the lookup was answered.
C18_OwnerFaultIsAbsorbed ==
  /\ (OwnerCalls # <<>> /\ pc # "owner") =>
       LET lookup == OwnerCalls[Len(OwnerCalls)]
       IN /\ lookup.svc = info.name
          /\ (info.owner # <<>>) <=> ~lookup.fault
          /\ lookup.fault => info.error = <<>>
          /\ pc \notin {"root", "start"} => Root \in IntrospectedOf(info.name)
  /\ pc = "root" => OwnerCalls # <<>>
  /\ (OwnerCalls # <<>> /\ pc \in {"names", "done"}) =>
       /\ info.objects = RefObjects(info.name)
       /\ info.error = <<>>

\* The owner lookup of "a" faulted; the walk found the root and a child.
C18_Witness ==
  /\ req.kind = "service" /\ pc = "done"
  /\ Len(OwnerCalls) = 1 /\ OwnerCalls[1].fault
  /\ result[1].value.owner = <<>>
  /\ result[1].value.error = <<>>
  /\ Len(result[1].value.objects) = 2
  /\ \A o \in Range(result[1].value.objects) : o.error = <<>>


\* C19: an object that carries an error has no interface and no child name,
\* and no path below it is sent to Introspect: every path introspected after
\* the root is the join of an error-free object introspected before it with a
\* child name of its schema.  An object without error carries the interfaces
\* and the child names of the schema the bus answered with.
C19_ErroredObjectsAreBare ==
  PastRoot =>
    /\ \A o \in Held :
         /\ <<info.name, o.path>> \in DOMAIN graph
         /\ LET schema == graph[<<info.name, o.path>>]
            IN IF o.error # <<>>
                 THEN /\ o.interfaces = <<>> /\ o.child_nodes = <<>>
                      /\ Failed(info.name, o.path)
                 ELSE /\ ~Failed(info.name, o.path)
                      /\ o.child_nodes = schema.nodes
                      /\ o.interfaces =
                           [i \in 1..Len(schema.interfaces) |->
                              InterfaceInfo(schema.interfaces[i])]
    /\ \A i \in 1..Len(walked) :
         IF i = 1 THEN walked[i] = <<"/">>
         ELSE \E j \in 1..(i - 1) :
                /\ ~Failed(info.name, walked[j])
                /\ \E c \in Range(graph[<<info.name, walked[j]>>].nodes) :
                     walked[i] = Join(walked[j], c)

\* "/b" is denied and "/a" is a leaf: the record has "/b" bare and "/a" with
\* its interface, and only "/", "/b" and "/a" were introspected.
C19_Witness ==
  /\ req.kind = "service" /\ pc = "done"
  /\ graph[<<req.name, Root>>] = Xml(<< <<"b">>, <<"a">> >>)
  /\ graph[<<req.name, <<"/", "b">> >>] = Fault("AccessDenied")
  /\ walked = << Root, <<"/", "b">>, <<"/", "a">> >>
  /\ \E o \in Range(result[1].value.objects) :
       /\ o.path = <<"/", "b">> /\ o.error # <<>>
       /\ o.interfaces = <<>> /\ o.child_nodes = <<>>
  /\ \E o \in Range(result[1].value.objects) :
       /\ o.path = <<"/", "a">> /\ o.error = <<>>
       /\ Len(o.interfaces) = 1
       /\ o.interfaces[1].name = "com.example.Leaf"
       /\ Len(o.interfaces[1].methods[1].return_values) = 1


\* C20: the access mode of every property of a decoded interface is one of
\* "read", "write" and "readwrite", whatever the access attribute of the
\* schema says.
C20_PropertyAccessIsKnown ==
  Decoded =>
    \A i \in 1..Len(result[1].interfaces) :
      \A property \in Range(result[1].interfaces[i].properties) :
        property.access \in {"read", "write", "readwrite"}


\* C21: a walk asks for "/" first, the record of "/" is the first of the
\* objects, and every later object stands after an error-free object whose
\* schema advertises it: a parent is recorded before its descendants.
C21_ParentsPrecedeDescendants ==
  PastRoot =>
    /\ walked # <<>> => walked[1] = <<"/">>
    /\ info.objects # <<>> => info.objects[1].path = <<"/">>
    /\ \A i \in 2..Len(info.objects) :
         \E j \in 1..(i - 1) :
           /\ info.objects[j].error = <<>>
           /\ \E c \in Range(info.objects[j].child_nodes) :
                info.objects[i].path = Join(info.objects[j].path, c)
    /\ (req.kind = "service" /\ pc = "done") =>
         /\ result[1].ok
         /\ result[1].value.objects = info.objects
         /\ Len(info.objects) >= 1

\* "/" advertises "a" and "b", "/a" advertises "a": the record lists "/",
\* "/b", "/a", "/a/a".
C21_Witness ==
  /\ req.kind = "service" /\ pc = "done"
  /\ [i \in 1..Len(result[1].value.objects) |->
        result[1].value.objects[i].path] =
       << <<"/">>, <<"/", "b">>, <<"/", "a">>, <<"/", "a", "/", "a">> >>
  /\ walked =
       << <<"/">>, <<"/", "a">>, <<"/", "b">>, <<"/", "a", "/", "a">> >>


\* Path q is path parent extended by exactly one segment.
OneSegmentBelow(q, parent) ==
  \E n \in 1..Len(q) :
    LET segment == SubSeq(q, Len(q) - n + 1, Len(q))
    IN /\ \A k \in 1..n : segment[k] # "/"
       /\ q = Join(parent, segment)

\* C22: find_child_objects returns, in ascending order of path, exactly the
\* error-free objects whose path is the parent's extended by one segment,
\* for the root as for any other parent.
C22_DirectChildrenSorted ==
  (req.kind = "find_child_objects" /\ pc = "done") =>
    LET children == result[1]
        Wanted(o) == o.error = <<>> /\ OneSegmentBelow(o.path, req.path)
    IN /\ \A o \in Range(children) : o \in Range(req.objects) /\ Wanted(o)
       /\ \A o \in Range(req.objects) : Wanted(o) => o \in Range(children)
       /\ Len(children) =
            Cardinality({ i \in 1..Len(req.objects) : Wanted(req.objects[i]) })
       /\ \A i \in 1..(Len(children) - 1) :
            ~StrLess(children[i + 1].path, children[i].path)


\* C23: every record analyze_service returns holds at least one object and
\* no top-level error, and a service page that ran the walk answers with the
\* record, never with ServiceNotFound, whether or not the bus knows the name.
C23_RecordNeverEmpty ==
  /\ \A r \in Range(services) : Len(r.objects) >= 1 /\ r.error = <<>>
  /\ info.error = <<>>
  /\ (req.kind = "service" /\ pc = "done") =>
       /\ result[1].ok
       /\ Len(result[1].value.objects) >= 1
       /\ result[1].value.error = <<>>

C23_Witness ==
  /\ req.kind = "service" /\ pc = "done"
  /\ Len(OwnerCalls) = 1 /\ OwnerCalls[1].fault
  /\ graph[<<req.name, Root>>].k # "ok"
  /\ graph[<<req.name, Root>>].code = "ServiceUnknown"
  /\ result[1].ok
  /\ Len(result[1].value.objects) = 1
  /\ result[1].value.objects[1].path = Root
  /\ result[1].value.objects[1].error # <<>>
  /\ result[1].value.error = <<>>

====
